---------------------------- MODULE Spec2Model ----------------------------
(***************************************************************************)
(* Model of the Instagram -> Google Drive -> YouTube relay application     *)
(* (app.py, google_drive.py).                                              *)
(*                                                                         *)
(* The program is single threaded: every request handler runs to its end   *)
(* before the next one starts, so each handler is one action.  A handler   *)
(* calls external services (Google Drive, yt-dlp, YouTube) whose outcome   *)
(* the program does not control.  Every function of the program is an      *)
(* operator from a world (the record of all program and store state) to    *)
(* the SET of results it can end with, one per combination of outcomes of  *)
(* the external calls it makes.  A result is [w, r, x]: the world after    *)
(* the call, the returned value, and whether the call raised.              *)
(***************************************************************************)
EXTENDS Integers, Sequences, FiniteSets, TLC

VARIABLES
    USE_GDRIVE,       \* app.py: the google_drive module was imported
    service,          \* gdrive_manager.service is set (authenticated)
    file_id,          \* gdrive_manager.file_id, 0 for None
    drive_docs,       \* Drive: the documents named instagram_downloads.json, by id
    drive_videos,     \* Drive: the uploaded videos, by id: [name, alive]
    links_file,       \* the local file downloaded_links.json: [exists, data]
    downloads,        \* the download directory: file names, oldest ctime first
    youtube_service,  \* app.py: the cached YouTube client is set
    youtube_videos,   \* YouTube: the file name published under each video id
    resp,             \* the last request: number, operation, response, calls made
    meta,             \* a metadata extraction on its own: answers, result, title
    writers           \* overlapping save_downloaded_link calls: position, data

vars ==
    <<USE_GDRIVE, service, file_id, drive_docs, drive_videos, links_file,
      downloads, youtube_service, youtube_videos, resp, meta, writers>>

\* ----------------------------------------------------------------- bounds
\* The URLs submitted in one run, over all requests (a request that carries
\* no URL, and a restart, count as one), and the lines of one batch form.
MaxUrls == 3
MaxBatch == 2
\* The longest caption the Extractor's sources hold.
MaxCaption == 502

\* ------------------------------------------------------------------ values
\* Python's None for an identifier (ids start at 1) and for a string.
None == 0
NoString == <<>>

\* A URL is the sequence of the parts the program looks for in it.
PostA == <<"instagram.com", "/p/", "A">>
ReelB == <<"instagram.com", "/reel/", "B">>
NoMarker == <<"instagram.com", "A">>
OtherSite == <<"example.com", "/p/", "A">>
EmptyUrl == <<>>

ValidUrls == {PostA, ReelB}
InvalidUrls == {NoMarker, OtherSite}
Urls == ValidUrls \cup InvalidUrls \cup {EmptyUrl}

\* part in url
Contains(url, part) ==
    \E i \in 1..Len(url) : url[i] = part

\* yt-dlp's output template %(id)s.%(ext)s: the file is named by the post's id.
MediaFile(url) ==
    <<url[Len(url)], ".mp4">>

EmptyLedger ==
    [links |-> <<>>, count |-> 0]

\* A string is the sequence of its characters, a character a number; the
\* empty sequence also stands for None (the program tests both only for
\* truth).  A caption of n characters, all different:
Caption(n) ==
    [i \in 1..n |-> i]

\* '...'
Ellipsis ==
    <<0, 0, 0>>

\* An uploader's name.
UserName ==
    <<-3, -3, -3, -3>>

\* "Amazing content from Instagram" (30 characters)
DefaultDescription ==
    [i \in 1..30 |-> -1]

\* s[:n]
Slice(s, n) ==
    SubSeq(s, 1, IF Len(s) < n THEN Len(s) ELSE n)

\* len(description) > 500, description[:500]; description[:100]
CaptionLimit == 500
TitleLimit == 100

\* ------------------------------------------------------------------- world
World ==
    [service |-> service, file_id |-> file_id, drive_docs |-> drive_docs,
     drive_videos |-> drive_videos, links_file |-> links_file,
     downloads |-> downloads, youtube_service |-> youtube_service,
     youtube_videos |-> youtube_videos]

\* A result: the world after the call, the value returned, whether the call
\* raised, and (via) whether the external service answered ("ok") or the
\* function failed closed on an error ("closed").
Ret(w, r) ==
    [w |-> w, r |-> r, x |-> FALSE, via |-> "ok"]

Closed(w, r) ==
    [w |-> w, r |-> r, x |-> FALSE, via |-> "closed"]

Raised(w, r) ==
    [w |-> w, r |-> r, x |-> TRUE, via |-> "raised"]

\* ------------------------------------------------------- google_drive.py
\* authenticate(): True with the service built, False when the client
\* descriptor is missing, or an exception of the credential load or refresh.
authenticate(w) ==
    { Ret([w EXCEPT !.service = TRUE], TRUE),
      Closed(w, FALSE),
      Raised(w, FALSE) }

\* find_file(): the first listed document becomes file_id (the listing's
\* order is the service's); False when the listing is empty or fails.
find_file(w) ==
    { Ret([w EXCEPT !.file_id = d], TRUE) : d \in 1..Len(w.drive_docs) }
        \cup { IF w.drive_docs = <<>> THEN Ret(w, FALSE) ELSE Closed(w, FALSE) }

\* The media download of document w.file_id inside download_file's try:
\* the parsed document, or the except branch's empty ledger.
get_media(w) ==
    { Ret(w, w.drive_docs[w.file_id]), Closed(w, EmptyLedger) }

\* download_file(): the document's content; the empty ledger when the
\* document is not found or anything fails.
download_file(w) ==
    IF w.file_id = None
    THEN UNION { IF f.r THEN get_media(f.w)
                 ELSE { [f EXCEPT !.r = EmptyLedger] }
                 : f \in find_file(w) }
    ELSE get_media(w)

\* upload_file updating the document by adding data's last entry to what
\* the document holds, instead of replacing its content.
upload_file_Merge(w, data) ==
    { Closed(w, FALSE) } \cup
    IF ~w.service THEN {}
    ELSE IF w.file_id # None
    THEN { Ret([w EXCEPT !.drive_docs[w.file_id] =
                    [links |-> Append(@.links, data.links[Len(data.links)]),
                     count |-> Len(@.links) + 1]], TRUE) }
    ELSE { Ret([w EXCEPT !.drive_docs = Append(@, data),
                         !.file_id = Len(w.drive_docs) + 1], TRUE) }

\* upload_file(data): overwrite document file_id, or create the document
\* when file_id is None; False on any error (no service included).
upload_file(w, data) ==
    { Closed(w, FALSE) } \cup
    IF ~w.service THEN {}
    ELSE IF w.file_id # None
    THEN { Ret([w EXCEPT !.drive_docs[w.file_id] = data], TRUE) }
    ELSE { Ret([w EXCEPT !.drive_docs = Append(@, data),
                         !.file_id = Len(w.drive_docs) + 1], TRUE) }

\* get_downloaded_links()
get_downloaded_links(w) ==
    IF ~w.service
    THEN UNION { IF a.x THEN { Raised(a.w, EmptyLedger) }
                 ELSE IF ~a.r THEN { Closed(a.w, EmptyLedger) }
                 ELSE download_file(a.w)
                 : a \in authenticate(w) }
    ELSE download_file(w)

UrlIn(data, url) ==
    \E i \in 1..Len(data.links) : data.links[i].url = url

\* GoogleDriveManager.is_already_downloaded(url)
gdrive_is_already_downloaded(w, url) ==
    IF ~w.service
    THEN UNION { IF a.x THEN { Raised(a.w, FALSE) }
                 ELSE IF ~a.r THEN { Closed(a.w, FALSE) }
                 ELSE { [d EXCEPT !.r = UrlIn(d.r, url)] : d \in download_file(a.w) }
                 : a \in authenticate(w) }
    ELSE { [d EXCEPT !.r = UrlIn(d.r, url)] : d \in download_file(w) }

\* ----------------------------------------------------------------- app.py
\* The local fallback of load_downloaded_links.
load_local(w) ==
    IF w.links_file.exists THEN w.links_file.data ELSE EmptyLedger

\* load_downloaded_links reading only the local file once a local file
\* exists, that is after an earlier save fell back to it.
load_downloaded_links_Sticky(w) ==
    IF USE_GDRIVE /\ ~w.links_file.exists
    THEN { IF g.x THEN [g EXCEPT !.r = load_local(g.w), !.x = FALSE] ELSE g
           : g \in get_downloaded_links(w) }
    ELSE { [w |-> w, r |-> load_local(w), x |-> FALSE, via |-> "none"] }

\* load_downloaded_links(): the result carries, beside the ledger, how the
\* Primary Remote Store answered (via; "none": not configured).
load_downloaded_links(w) ==
    IF USE_GDRIVE
    THEN { IF g.x THEN [g EXCEPT !.r = load_local(g.w), !.x = FALSE] ELSE g
           : g \in get_downloaded_links(w) }
    ELSE { [w |-> w, r |-> load_local(w), x |-> FALSE, via |-> "none"] }

Entry(url, filename, youtube_url, gdrive_file_id) ==
    [url |-> url, filename |-> filename, youtube_url |-> youtube_url,
     gdrive_file_id |-> gdrive_file_id]

\* The count taken before the append instead of after it.
AppendLink_StaleCount(data, entry) ==
    [links |-> Append(data.links, entry), count |-> Len(data.links)]

\* data["links"].append(entry); data["count"] = len(data["links"])
AppendLink(data, entry) ==
    LET links == Append(data.links, entry)
    IN  [links |-> links, count |-> Len(links)]

\* The local fallback of save_downloaded_link, reached from the Drive branch.
save_local(w, entry) ==
    { Ret([l.w EXCEPT !.links_file =
                [exists |-> TRUE, data |-> AppendLink(l.r, entry)]], TRUE)
      : l \in load_downloaded_links(w) }

\* save_downloaded_link(url, filename, youtube_url, gdrive_file_id).  The
\* import at line 71 makes datetime a local name of the function, bound
\* only when the Drive branch runs: without it the fallback's
\* datetime.now() (line 98) raises UnboundLocalError, after the load and
\* before the file is written.
save_downloaded_link(w, entry) ==
    IF USE_GDRIVE
    THEN UNION { UNION { IF u.r THEN { Ret(u.w, TRUE) } ELSE save_local(u.w, entry)
                         : u \in upload_file(l.w, AppendLink(l.r, entry)) }
                 : l \in load_downloaded_links(w) }
    ELSE { Raised(l.w, FALSE) : l \in load_downloaded_links(w) }

\* is_already_downloaded(url)
is_already_downloaded(w, url) ==
    IF USE_GDRIVE
    THEN UNION { IF g.x
                 THEN { [l EXCEPT !.r = UrlIn(l.r, url)]
                        : l \in load_downloaded_links(g.w) }
                 ELSE { g }
                 : g \in gdrive_is_already_downloaded(w, url) }
    ELSE { [l EXCEPT !.r = UrlIn(l.r, url)] : l \in load_downloaded_links(w) }

\* The loop of get_youtube_url_if_uploaded: the youtube_url of the first
\* entry with this url, None when there is none.
RECURSIVE FirstYoutubeUrl(_, _)
FirstYoutubeUrl(links, url) ==
    IF links = <<>> THEN NoString
    ELSE IF Head(links).url = url THEN Head(links).youtube_url
    ELSE FirstYoutubeUrl(Tail(links), url)

\* get_youtube_url_if_uploaded(url)
get_youtube_url_if_uploaded(w, url) ==
    { [l EXCEPT !.r = FirstYoutubeUrl(l.r.links, url)]
      : l \in load_downloaded_links(w) }

\* ------------------------------------------------- the download directory
InDir(dir, name) ==
    \E i \in 1..Len(dir) : dir[i] = name

RemoveFile(dir, name) ==
    SelectSeq(dir, LAMBDA f : f # name)

\* A file created (or created again) now has the greatest creation time.
CreateFile(dir, name) ==
    Append(RemoveFile(dir, name), name)

\* ------------------------------------------- google_drive.py, the videos
\* The authenticate() step at the head of upload_video, download_video and
\* delete_video, inside their try: the worlds the function goes on with,
\* and whether it can end there returning its failure value.
AuthWorlds(w) ==
    IF w.service THEN { w } ELSE { [w EXCEPT !.service = TRUE] }

AuthCanFail(w) ==
    ~w.service

\* upload_video(local_path, filename): the new file's id, or None.
upload_video(w, filename) ==
    { Closed(w, None) : z \in IF AuthCanFail(w) THEN {0} ELSE {} }
    \cup UNION { { Closed(a, None),
                   Ret([a EXCEPT !.drive_videos =
                            Append(@, [name |-> filename, alive |-> TRUE])],
                       Len(a.drive_videos) + 1) }
                 : a \in AuthWorlds(w) }

\* download_video(file_id, output_path): the output file is opened for
\* writing before the first chunk is requested.
download_video(w, id, filename) ==
    { Closed(w, FALSE) : z \in IF AuthCanFail(w) THEN {0} ELSE {} }
    \cup UNION { { Closed([a EXCEPT !.downloads = CreateFile(@, filename)], FALSE) }
                 \cup { Ret([a EXCEPT !.downloads = CreateFile(@, filename)], TRUE)
                        : z \in IF a.drive_videos[id].alive THEN {0} ELSE {} }
                 : a \in AuthWorlds(w) }

\* delete_video(file_id)
delete_video(w, id) ==
    { Closed(w, FALSE) : z \in IF AuthCanFail(w) THEN {0} ELSE {} }
    \cup UNION { { Closed(a, FALSE),
                   Ret([a EXCEPT !.drive_videos[id].alive = FALSE], TRUE) }
                 : a \in AuthWorlds(w) }

\* ------------------------------------------------------ app.py, YouTube
\* authenticate_youtube loading the credentials on every call.
authenticate_youtube_NoCache(w) ==
    { Ret([w EXCEPT !.youtube_service = TRUE], TRUE),
      Closed(w, FALSE),
      Raised(w, FALSE) }

\* authenticate_youtube(): the cached client, a new client, None when the
\* client descriptor is missing, or an exception of the credential load,
\* refresh or consent flow.
authenticate_youtube(w) ==
    IF w.youtube_service THEN { Ret(w, TRUE) }
    ELSE { Ret([w EXCEPT !.youtube_service = TRUE], TRUE),
           Closed(w, FALSE),
           Raised(w, FALSE) }

WatchUrl(video_id) ==
    <<"https://www.youtube.com/watch?v=", video_id>>

\* upload_to_youtube(video_path, ...): (video_id, youtube_url), or
\* (None, error string); authenticate_youtube is called before the try.
upload_to_youtube(w, filename) ==
    UNION { IF a.x THEN { Raised(a.w, [video_id |-> None, url |-> NoString]) }
            ELSE IF ~a.r
            THEN { Closed(a.w, [video_id |-> None, url |-> <<"error">>]) }
            ELSE { Closed(a.w, [video_id |-> None, url |-> <<"error">>]),
                   Ret([a.w EXCEPT !.youtube_videos = Append(@, filename)],
                       [video_id |-> Len(a.w.youtube_videos) + 1,
                        url |-> WatchUrl(Len(a.w.youtube_videos) + 1)]) }
            : a \in authenticate_youtube(w) }

\* ------------------------------------------------------- app.py, yt-dlp
\* What `yt-dlp --dump-json` answers: kind "json" is exit 0 with a JSON
\* object on stdout, of which uploader (or channel, uploader_id),
\* description and title are read; "nonzero" a non-zero exit; "empty" exit
\* 0 with nothing on stdout; "unparsable" output json.loads rejects;
\* "timeout" and "missing" exceptions of subprocess.run.
ToolFailures ==
    {"nonzero", "empty", "unparsable", "timeout", "missing"}

ToolAnswer(kind, uploader, description, title) ==
    [kind |-> kind, uploader |-> uploader, description |-> description,
     title |-> title]

\* What the page request of the scrape answers: "error" is an exception of
\* requests.get, "non200" a status other than 200, "nomatch" a page with
\* neither pattern, "og" a page from which username and description are
\* parsed (either may be missing).
PageFailures ==
    {"error", "non200", "nomatch"}

PageAnswer(kind, username, description) ==
    [kind |-> kind, username |-> username, description |-> description]

\* a or b
Or(a, b) ==
    IF a # NoString THEN a ELSE b

\* scrape_instagram_metadata with the request outside its try.
scrape_instagram_metadata_Unguarded(page) ==
    IF page.kind = "og"
    THEN [username |-> page.username, description |-> page.description,
          scraped |-> TRUE, raised |-> FALSE]
    ELSE [username |-> NoString, description |-> NoString,
          scraped |-> TRUE, raised |-> page.kind = "error"]

\* scrape_instagram_metadata(post_url): (username, description) parsed
\* from the page, (None, None) on a status other than 200, and on any
\* exception.
scrape_instagram_metadata(page) ==
    IF page.kind = "og"
    THEN [username |-> page.username, description |-> page.description,
          scraped |-> TRUE, raised |-> FALSE]
    ELSE [username |-> NoString, description |-> NoString,
          scraped |-> TRUE, raised |-> FALSE]

\* The caption cut without the marker.
Truncate_NoEllipsis(description) ==
    Slice(description, CaptionLimit)

\* if description and len(description) > 500:
\*     description = description[:500] + '...'
Truncate(description) ==
    IF description # NoString /\ Len(description) > CaptionLimit
    THEN Slice(description, CaptionLimit) \o Ellipsis
    ELSE description

\* The body of get_instagram_metadata for given answers of yt-dlp and of
\* the page: the result of the yt-dlp path when it has one, else, and on
\* any exception, the result of the scrape.
metadata_of(tool, page) ==
    IF tool.kind = "json"
    THEN [username |-> tool.uploader,
          description |-> Truncate(Or(tool.description, tool.title)),
          scraped |-> FALSE, raised |-> FALSE]
    ELSE scrape_instagram_metadata(page)

\* The answers the request handlers meet: metadata found, or nothing.
MetadataAnswers ==
    { <<ToolAnswer("json", UserName, Caption(1), NoString),
        PageAnswer("non200", NoString, NoString)>>,
      <<ToolAnswer("nonzero", NoString, NoString, NoString),
        PageAnswer("non200", NoString, NoString)>> }

\* get_instagram_metadata(post_url): (username, description), each None
\* when neither yt-dlp nor the page scrape yields it.
get_instagram_metadata(w, url) ==
    { Ret(w, metadata_of(a[1], a[2])) : a \in MetadataAnswers }

\* max(files, key=getctime) over the media files of the directory
LatestFile(dir) ==
    dir[Len(dir)]

\* What a yt-dlp run that exits 0 leaves in the directory: the post's file,
\* created unless it was there already (an existing file is not downloaded
\* again), or no media file of the post at all.
YtDlpDirs(dir, url) ==
    { IF InDir(dir, MediaFile(url)) THEN dir ELSE Append(dir, MediaFile(url)),
      dir }

\* A failure tuple that names a file.
NoFetch_KeepsName ==
    [filename |-> <<"partial">>, success |-> FALSE, gdrive_file_id |-> None]

\* (None, False, message, None)
NoFetch ==
    [filename |-> NoString, success |-> FALSE, gdrive_file_id |-> None]

\* download_video_ytdlp with the local file left in place after its upload
\* to Drive (the os.remove of line 353 dropped).
download_video_ytdlp_KeepsLocal(w, url) ==
    { Closed(w, NoFetch) } \cup
    UNION { IF dir = <<>> THEN { Closed(w, NoFetch) }
            ELSE LET latest_file == LatestFile(dir)
                     d == [w EXCEPT !.downloads = dir]
                 IN  IF USE_GDRIVE
                     THEN { Ret(u.w, [filename |-> latest_file, success |-> TRUE,
                                      gdrive_file_id |-> u.r])
                            : u \in upload_video(d, latest_file) }
                     ELSE { Ret(d, [filename |-> latest_file, success |-> TRUE,
                                    gdrive_file_id |-> None]) }
            : dir \in YtDlpDirs(w.downloads, url) }

\* download_video_ytdlp(post_url): (filename, success, message, gdrive_file_id)
download_video_ytdlp(w, url) ==
    { Closed(w, NoFetch) } \cup
    UNION { IF dir = <<>> THEN { Closed(w, NoFetch) }
            ELSE LET latest_file == LatestFile(dir)
                     d == [w EXCEPT !.downloads = dir]
                 IN  IF USE_GDRIVE
                     THEN { IF u.r # None
                            THEN Ret([u.w EXCEPT !.downloads = RemoveFile(@, latest_file)],
                                     [filename |-> latest_file, success |-> TRUE,
                                      gdrive_file_id |-> u.r])
                            ELSE Ret(u.w, [filename |-> latest_file, success |-> TRUE,
                                           gdrive_file_id |-> None])
                            : u \in upload_video(d, latest_file) }
                     ELSE { Ret(d, [filename |-> latest_file, success |-> TRUE,
                                    gdrive_file_id |-> None]) }
            : dir \in YtDlpDirs(w.downloads, url) }

\* ------------------------------------------------------- app.py, routes
\* The response of a request handler and what it did: the calls it made to
\* the ledger, the Extractor, the Fetcher, the Remote Store and the
\* Publisher, in order.  filename and gdrive_file_id are the handler's
\* local variables of these names when it returns.
NoResp ==
    [op |-> "none", url |-> EmptyUrl, step |-> "none", success |-> FALSE,
     status |-> 200, duplicate |-> FALSE, youtube_url |-> NoString,
     filename |-> NoString, gdrive_file_id |-> None,
     calls |-> <<>>, items |-> <<>>,
     data |-> EmptyLedger, via |-> "none"]

Out(w, r) ==
    [w |-> w, resp |-> r]

\* 'instagram.com' in url and ('/p/' in url or '/reel/' in url)
ValidInstagramUrl(url) ==
    Contains(url, "instagram.com")
        /\ (Contains(url, "/p/") \/ Contains(url, "/reel/"))

\* 'instagram.com' not in url or ('/p/' not in url and '/reel/' not in url)
InvalidInstagramUrl(url) ==
    ~Contains(url, "instagram.com")
        \/ (~Contains(url, "/p/") /\ ~Contains(url, "/reel/"))

\* relay_complete saving the entry with the remote id of the fetch.
relay_complete_KeepsRemoteId(w, r, y, calls) ==
    LET cleaned ==
            IF USE_GDRIVE /\ r.gdrive_file_id # None
            THEN { [w |-> [d.w EXCEPT !.downloads = RemoveFile(@, r.filename)],
                    calls |-> calls \o <<IF d.r THEN "delete_ok" ELSE "delete_fail",
                                         "remove_local">>]
                   : d \in delete_video(w, r.gdrive_file_id) }
            ELSE { [w |-> w, calls |-> calls] }
    IN  UNION { { IF s.x
                    THEN Out(s.w, [r EXCEPT !.step = "error", !.status = 500,
                                            !.calls = c.calls \o <<"save_raise">>])
                    ELSE Out(s.w, [r EXCEPT !.step = "complete", !.success = TRUE,
                                            !.youtube_url = y.url,
                                            !.calls = c.calls \o <<"save">>])
                  : s \in save_downloaded_link(
                              c.w, Entry(r.url, r.filename, y.url, r.gdrive_file_id)) }
                : c \in cleaned }

\* instagram_to_youtube, POST, after a successful upload_to_youtube: the
\* cleanup, the ledger entry and the 'complete' response.
relay_complete(w, r, y, calls) ==
    LET cleaned ==
            IF USE_GDRIVE /\ r.gdrive_file_id # None
            THEN { [w |-> [d.w EXCEPT !.downloads = RemoveFile(@, r.filename)],
                    calls |-> calls \o <<IF d.r THEN "delete_ok" ELSE "delete_fail",
                                         "remove_local">>]
                   : d \in delete_video(w, r.gdrive_file_id) }
            ELSE { [w |-> w, calls |-> calls] }
    IN  UNION { { IF s.x
                    THEN Out(s.w, [r EXCEPT !.step = "error", !.status = 500,
                                            !.calls = c.calls \o <<"save_raise">>])
                    ELSE Out(s.w, [r EXCEPT !.step = "complete", !.success = TRUE,
                                            !.youtube_url = y.url,
                                            !.calls = c.calls \o <<"save">>])
                  : s \in save_downloaded_link(
                              c.w, Entry(r.url, r.filename, y.url, None)) }
                : c \in cleaned }

\* relay_publish with the ledger entry written whether or not the upload
\* succeeded (the save moved out of the `if video_id` branch).
relay_publish_SavesAlways(w, r, calls) ==
    UNION { IF y.x
            THEN { Out(y.w, [r EXCEPT !.step = "error", !.status = 500,
                                      !.calls = calls \o <<"publish_raise">>]) }
            ELSE IF y.r.video_id # None
            THEN relay_complete(y.w, r, y.r, calls \o <<"publish_ok">>)
            ELSE { Out(s.w, [r EXCEPT !.step = "upload", !.status = 500,
                                      !.calls = calls \o <<"publish_fail", "save">>])
                   : s \in save_downloaded_link(
                               y.w, Entry(r.url, r.filename, y.r.url, None)) }
            : y \in upload_to_youtube(w, r.filename) }

\* instagram_to_youtube, POST, from the upload to YouTube on.
relay_publish(w, r, calls) ==
    UNION { IF y.x
            THEN { Out(y.w, [r EXCEPT !.step = "error", !.status = 500,
                                      !.calls = calls \o <<"publish_raise">>]) }
            ELSE IF y.r.video_id # None
            THEN relay_complete(y.w, r, y.r, calls \o <<"publish_ok">>)
            ELSE { Out(y.w, [r EXCEPT !.step = "upload", !.status = 500,
                                      !.calls = calls \o <<"publish_fail">>]) }
            : y \in upload_to_youtube(w, r.filename) }

\* relay_fetch going on to the upload when the pull-back from Drive failed.
relay_fetch_IgnoresPull(w, r, calls) ==
    UNION { IF ~f.r.success
            THEN { Out(f.w, [r EXCEPT !.step = "download", !.status = 500,
                                      !.calls = calls \o <<"fetch_fail">>]) }
            ELSE LET r2 == [r EXCEPT !.filename = f.r.filename,
                                     !.gdrive_file_id = f.r.gdrive_file_id]
                     c2 == calls \o <<"fetch_ok">>
                 IN  IF USE_GDRIVE /\ f.r.gdrive_file_id # None
                     THEN UNION { relay_publish(p.w, r2,
                                      c2 \o <<IF p.r THEN "pull_ok" ELSE "pull_fail">>)
                                  : p \in download_video(f.w, f.r.gdrive_file_id,
                                                         f.r.filename) }
                     ELSE relay_publish(f.w, r2, c2)
            : f \in download_video_ytdlp(w, r.url) }

\* instagram_to_youtube, POST, from the download on.
relay_fetch(w, r, calls) ==
    UNION { IF ~f.r.success
            THEN { Out(f.w, [r EXCEPT !.step = "download", !.status = 500,
                                      !.filename = f.r.filename,
                                      !.gdrive_file_id = f.r.gdrive_file_id,
                                      !.calls = calls \o <<"fetch_fail">>]) }
            ELSE LET r2 == [r EXCEPT !.filename = f.r.filename,
                                     !.gdrive_file_id = f.r.gdrive_file_id]
                     c2 == calls \o <<"fetch_ok">>
                 IN  IF USE_GDRIVE /\ f.r.gdrive_file_id # None
                     THEN UNION { IF ~p.r
                                  THEN { Out(p.w, [r2 EXCEPT !.step = "gdrive_download",
                                                            !.status = 500,
                                                            !.calls = c2 \o <<"pull_fail">>]) }
                                  ELSE relay_publish(p.w, r2, c2 \o <<"pull_ok">>)
                                  : p \in download_video(f.w, f.r.gdrive_file_id,
                                                         f.r.filename) }
                     ELSE relay_publish(f.w, r2, c2)
            : f \in download_video_ytdlp(w, r.url) }

\* instagram_to_youtube, POST
instagram_to_youtube(w, url) ==
    LET r == [NoResp EXCEPT !.op = "relay", !.url = url]
    IN  IF url = EmptyUrl
        THEN { Out(w, [r EXCEPT !.step = "no_url", !.status = 400]) }
        ELSE IF InvalidInstagramUrl(url)
        THEN { Out(w, [r EXCEPT !.step = "invalid", !.status = 400]) }
        ELSE UNION {
            IF e.r # NoString
            THEN { Out(e.w, [r EXCEPT !.step = "duplicate", !.success = TRUE,
                                      !.duplicate = TRUE, !.youtube_url = e.r,
                                      !.calls = <<"lookup">>]) }
            ELSE UNION { relay_fetch(m.w, r, <<"lookup", "extract">>)
                         : m \in get_instagram_metadata(e.w, url) }
            : e \in get_youtube_url_if_uploaded(w, url) }

\* manual, POST: the loop over valid_urls.  items collects the downloaded,
\* skipped and failed lists in order.
RECURSIVE manual_loop(_, _, _, _)
manual_loop(w, urls, calls, items) ==
    IF urls = <<>>
    THEN { [w |-> w, calls |-> calls, items |-> items, x |-> FALSE] }
    ELSE LET url == Head(urls)
             Item(list, f) ==
                 [list |-> list, url |-> url, filename |-> f.filename,
                  gdrive_file_id |-> f.gdrive_file_id]
         IN UNION { UNION {
              IF c.r
              THEN manual_loop(c.w, Tail(urls), calls \o <<"extract", "lookup">>,
                               Append(items, Item("skipped", NoFetch)))
              ELSE UNION {
                  IF f.r.success
                  THEN UNION { IF s.x
                               THEN { [w |-> s.w, items |-> items, x |-> TRUE,
                                       calls |-> calls \o <<"extract", "lookup",
                                                   "fetch_ok", "save_raise">>] }
                               ELSE manual_loop(s.w, Tail(urls),
                                   calls \o <<"extract", "lookup", "fetch_ok", "save">>,
                                   Append(items, Item("downloaded", f.r)))
                               : s \in save_downloaded_link(f.w,
                                     Entry(url, f.r.filename, NoString,
                                           f.r.gdrive_file_id)) }
                  ELSE manual_loop(f.w, Tail(urls),
                                   calls \o <<"extract", "lookup", "fetch_fail">>,
                                   Append(items, Item("failed", f.r)))
                  : f \in download_video_ytdlp(c.w, url) }
              : c \in is_already_downloaded(m.w, url) }
            : m \in get_instagram_metadata(w, url) }

\* manual, POST: urls are the non-empty lines of the form field.  The
\* handler has no try: an exception of the loop ends it ("exception").
manual(w, urls) ==
    LET r == [NoResp EXCEPT !.op = "manual"]
        valid_urls == SelectSeq(urls, ValidInstagramUrl)
    IN  IF urls = <<>>
        THEN { Out(w, [r EXCEPT !.step = "no_url"]) }
        ELSE IF valid_urls = <<>>
        THEN { Out(w, [r EXCEPT !.step = "invalid", !.url = urls[1]]) }
        ELSE { Out(w, [r EXCEPT !.step = "no_ytdlp", !.url = valid_urls[1]]) }
             \cup { Out(l.w, [r EXCEPT !.step = IF l.x THEN "exception" ELSE "results",
                                       !.success = ~l.x,
                                       !.status = IF l.x THEN 500 ELSE 200,
                                       !.url = valid_urls[1],
                                       !.calls = l.calls, !.items = l.items])
                    : l \in manual_loop(w, valid_urls, <<>>, <<>>) }

\* check_url fetching the artifact of a URL that is not a duplicate.
check_url_Fetches(w, url) ==
    LET r == [NoResp EXCEPT !.op = "check", !.url = url]
    IN  IF url = EmptyUrl
        THEN { Out(w, [r EXCEPT !.step = "no_url", !.status = 400]) }
        ELSE UNION { UNION { { Out(IF c.r THEN m.w ELSE f.w,
                                   [r EXCEPT !.step = "checked", !.success = TRUE,
                                             !.duplicate = c.r,
                                             !.calls = <<"lookup", "extract">>])
                               : f \in download_video_ytdlp(m.w, url) }
                             : m \in get_instagram_metadata(c.w, url) }
                     : c \in is_already_downloaded(w, url) }

\* check_url, POST
check_url(w, url) ==
    LET r == [NoResp EXCEPT !.op = "check", !.url = url]
    IN  IF url = EmptyUrl
        THEN { Out(w, [r EXCEPT !.step = "no_url", !.status = 400]) }
        ELSE UNION { { Out(m.w, [r EXCEPT !.step = "checked", !.success = TRUE,
                                          !.duplicate = c.r,
                                          !.calls = <<"lookup", "extract">>])
                       : m \in get_instagram_metadata(c.w, url) }
                     : c \in is_already_downloaded(w, url) }

\* index and stats: the ledger as load_downloaded_links returns it.
index(w) ==
    { Out(l.w, [NoResp EXCEPT !.op = "index", !.step = "home", !.success = TRUE,
                              !.calls = <<"lookup">>, !.data = l.r, !.via = l.via])
      : l \in load_downloaded_links(w) }

\* ----------------------------------------------------------- the machine
\* The non-empty lines a form can hold, up to MaxBatch of them.
Batches ==
    UNION { [1..k -> Urls \ {EmptyUrl}] : k \in 0..MaxBatch }

\* No metadata extraction of its own under way.
NoOut ==
    [username |-> NoString, description |-> NoString, scraped |-> FALSE,
     raised |-> FALSE]

NoMeta ==
    [phase |-> "none", tool |-> ToolAnswer("nonzero", NoString, NoString, NoString),
     page |-> PageAnswer("non200", NoString, NoString), out |-> NoOut,
     title |-> NoString]

\* No save_downloaded_link call under way outside a request.
NoWriters ==
    <<>>

\* The stores and the module globals when the process first starts.
InitWorld ==
    /\ USE_GDRIVE \in BOOLEAN
    /\ service = FALSE
    /\ file_id = None
    /\ drive_docs = <<>>
    /\ drive_videos = <<>>
    /\ links_file = [exists |-> FALSE, data |-> EmptyLedger]
    /\ downloads = <<>>
    /\ youtube_service = FALSE
    /\ youtube_videos = <<>>
    /\ resp = [NoResp EXCEPT !.op = "start"] @@ [n |-> 0]

Init ==
    /\ InitWorld
    /\ meta = NoMeta
    /\ writers = NoWriters

\* One request served to its end: the world and the response become those
\* of one of the handler's results.
Serve(results, cost) ==
    /\ resp.n + cost <= MaxUrls
    /\ \E o \in results :
        /\ service' = o.w.service
        /\ file_id' = o.w.file_id
        /\ drive_docs' = o.w.drive_docs
        /\ drive_videos' = o.w.drive_videos
        /\ links_file' = o.w.links_file
        /\ downloads' = o.w.downloads
        /\ youtube_service' = o.w.youtube_service
        /\ youtube_videos' = o.w.youtube_videos
        /\ resp' = o.resp @@ [n |-> resp.n + cost]
    /\ UNCHANGED <<USE_GDRIVE, meta, writers>>

Manual ==
    \E urls \in Batches :
        Serve(manual(World, urls), IF Len(urls) > 1 THEN Len(urls) ELSE 1)

CheckUrl ==
    \E url \in Urls : Serve(check_url(World, url), 1)

InstagramToYoutube ==
    \E url \in Urls : Serve(instagram_to_youtube(World, url), 1)

Index ==
    Serve(index(World), 1)

\* The process ends and is started again: the module globals are built
\* anew (google_drive.py 303, app.py 31), the stores are kept.
Restart ==
    /\ resp.n < MaxUrls
    /\ resp.op # "restart"
    /\ service' = FALSE
    /\ file_id' = None
    /\ youtube_service' = FALSE
    /\ resp' = [NoResp EXCEPT !.op = "restart"] @@ [n |-> resp.n + 1]
    /\ UNCHANGED <<USE_GDRIVE, drive_docs, drive_videos, links_file, downloads,
                   youtube_videos, meta, writers>>

Next ==
    \/ Manual
    \/ CheckUrl
    \/ InstagramToYoutube
    \/ Index
    \/ Restart

Spec ==
    Init /\ [][Next]_vars

\* The same machine with no Remote Store configured (the google_drive
\* module cannot be imported): the ledger is the local file alone.
InitLocal ==
    Init /\ USE_GDRIVE = FALSE

SpecLocal ==
    InitLocal /\ [][Next]_vars

\* ------------------------------------------- the Extractor and the title
\* The answers yt-dlp and the page can give, captions of every length up
\* to MaxCaption.
ToolAnswers ==
    { ToolAnswer("json", u, Caption(n), t)
      : u \in {NoString, UserName}, n \in 0..MaxCaption,
        t \in {NoString, Caption(MaxCaption)} }
    \cup { ToolAnswer(k, NoString, NoString, NoString) : k \in ToolFailures }

PageAnswers ==
    { PageAnswer("og", u, d)
      : u \in {NoString, UserName}, d \in {NoString, Caption(MaxCaption)} }
    \cup { PageAnswer(k, NoString, NoString) : k \in PageFailures }

\* "Instagram Reel by @" (19 characters)
InstagramReelBy ==
    [i \in 1..19 |-> -2]

\* The title passed on whole.
youtube_title_Whole(description, username) ==
    IF description # NoString THEN description
    ELSE InstagramReelBy \o username

\* instagram_to_youtube: youtube_title = description[:100] if description
\* else f"Instagram Reel by @{username}"
youtube_title(description, username) ==
    IF description # NoString THEN Slice(description, TitleLimit)
    ELSE InstagramReelBy \o username

\* instagram_to_youtube: the defaults for a missing username ("Unknown")
\* and a missing description, then the title.
relay_title(out) ==
    youtube_title(Or(out.description, DefaultDescription),
                  Or(out.username, <<-4, -4, -4, -4, -4, -4, -4>>))

InitMeta ==
    /\ InitWorld
    /\ USE_GDRIVE = FALSE
    /\ writers = NoWriters
    /\ meta \in { [NoMeta EXCEPT !.phase = "asked", !.tool = t, !.page = p]
                  : t \in ToolAnswers, p \in PageAnswers }

\* get_instagram_metadata(url) called with these answers.
GetInstagramMetadata ==
    /\ meta.phase = "asked"
    /\ meta' = [meta EXCEPT !.phase = "extracted",
                            !.out = metadata_of(meta.tool, meta.page)]
    /\ UNCHANGED <<USE_GDRIVE, service, file_id, drive_docs, drive_videos,
                   links_file, downloads, youtube_service, youtube_videos,
                   resp, writers>>

\* The relay flow prepares the title from the metadata it got.
PrepareTitle ==
    /\ meta.phase = "extracted"
    /\ ~meta.out.raised
    /\ meta' = [meta EXCEPT !.phase = "titled", !.title = relay_title(meta.out)]
    /\ UNCHANGED <<USE_GDRIVE, service, file_id, drive_docs, drive_videos,
                   links_file, downloads, youtube_service, youtube_videos,
                   resp, writers>>

NextMeta ==
    \/ GetInstagramMetadata
    \/ PrepareTitle

SpecMeta ==
    InitMeta /\ [][NextMeta]_vars

\* ------------------------------------------ overlapping ledger writers
\* Two requests served at the same time (the server handles each request
\* on a thread of its own) have both reached save_downloaded_link, for
\* different URLs.  The steps of one call are its calls to the stores:
\* the load, the upload to Drive, and in the fallback the second load and
\* the write of the local file.
Writers == 1..2

WriterUrl(t) ==
    IF t = 1 THEN PostA ELSE ReelB

WriterEntry(t) ==
    Entry(WriterUrl(t), MediaFile(WriterUrl(t)), NoString, None)

WorldBecomes(w) ==
    /\ service' = w.service
    /\ file_id' = w.file_id
    /\ drive_docs' = w.drive_docs
    /\ drive_videos' = w.drive_videos
    /\ links_file' = w.links_file
    /\ downloads' = w.downloads
    /\ youtube_service' = w.youtube_service
    /\ youtube_videos' = w.youtube_videos

\* The ledger an earlier batch request left on Drive: one entry, of a
\* file whose own upload to Drive had failed.
EarlierLedger ==
    AppendLink(EmptyLedger, Entry(PostA, MediaFile(PostA), NoString, None))

\* The overlap begins in a fresh process, or after that earlier request,
\* with the Drive client as the request or a restart left it.
InitOverlap ==
    /\ USE_GDRIVE \in BOOLEAN
    /\ \/ /\ drive_docs = <<>>
          /\ downloads = <<>>
          /\ service = FALSE
          /\ file_id = None
       \/ /\ USE_GDRIVE
          /\ drive_docs = <<EarlierLedger>>
          /\ downloads = <<MediaFile(PostA)>>
          /\ service \in BOOLEAN
          /\ file_id \in IF service THEN {None, 1} ELSE {None}
    /\ drive_videos = <<>>
    /\ links_file = [exists |-> FALSE, data |-> EmptyLedger]
    /\ youtube_service = FALSE
    /\ youtube_videos = <<>>
    /\ resp = [NoResp EXCEPT !.op = "start"] @@ [n |-> 0]
    /\ meta = NoMeta
    /\ writers = [t \in Writers |-> [pc |-> "start", data |-> EmptyLedger]]

\* data = load_downloaded_links() and the append (lines 67-79); without
\* Drive the load of line 92, and the append of line 93 raises.
SaveLoad(t) ==
    /\ writers[t].pc = "start"
    /\ \E l \in load_downloaded_links(World) :
        /\ WorldBecomes(l.w)
        /\ writers' = [writers EXCEPT ![t] =
                IF USE_GDRIVE
                THEN [pc |-> "loaded", data |-> AppendLink(l.r, WriterEntry(t))]
                ELSE [pc |-> "raised", data |-> l.r]]
    /\ UNCHANGED <<USE_GDRIVE, resp, meta>>

\* success = gdrive_manager.upload_file(data) (line 82)
SaveUpload(t) ==
    /\ writers[t].pc = "loaded"
    /\ \E u \in upload_file(World, writers[t].data) :
        /\ WorldBecomes(u.w)
        /\ writers' = [writers EXCEPT ![t].pc = IF u.r THEN "done" ELSE "fallback"]
    /\ UNCHANGED <<USE_GDRIVE, resp, meta>>

\* The fallback's data = load_downloaded_links() and append (lines 92-100)
SaveReload(t) ==
    /\ writers[t].pc = "fallback"
    /\ \E l \in load_downloaded_links(World) :
        /\ WorldBecomes(l.w)
        /\ writers' = [writers EXCEPT ![t] =
                [pc |-> "reloaded", data |-> AppendLink(l.r, WriterEntry(t))]]
    /\ UNCHANGED <<USE_GDRIVE, resp, meta>>

\* json.dump(data, f) into downloaded_links.json (lines 102-103)
SaveWrite(t) ==
    /\ writers[t].pc = "reloaded"
    /\ links_file' = [exists |-> TRUE, data |-> writers[t].data]
    /\ writers' = [writers EXCEPT ![t].pc = "done"]
    /\ UNCHANGED <<USE_GDRIVE, service, file_id, drive_docs, drive_videos,
                   downloads, youtube_service, youtube_videos, resp, meta>>

NextOverlap ==
    \E t \in Writers :
        \/ SaveLoad(t)
        \/ SaveUpload(t)
        \/ SaveReload(t)
        \/ SaveWrite(t)

SpecOverlap ==
    InitOverlap /\ [][NextOverlap]_vars

\* ------------------------------------------------------------ properties
HasCall(r, c) ==
    \E i \in 1..Len(r.calls) : r.calls[i] = c

\* This step serves a request (it is not a stuttering step).
Served ==
    resp'.n > resp.n

LocalLedger ==
    IF links_file.exists THEN links_file.data ELSE EmptyLedger

\* The relay flow ended 'complete': fetch and publish succeeded, entry saved.
RelaySucceeded(r) ==
    r.op = "relay" /\ r.step = "complete"

\* C1: a relay request for a URL that directly follows a successful relay
\* request for the same URL answers duplicate=true with the relay URL the
\* first one stored, and calls neither the Fetcher nor the Publisher.
C1_RelayIdempotent ==
    [][(Served /\ RelaySucceeded(resp) /\ resp'.op = "relay" /\ resp'.url = resp.url)
        => /\ resp'.duplicate
           /\ resp'.youtube_url = resp.youtube_url
           /\ ~HasCall(resp', "fetch_ok") /\ ~HasCall(resp', "fetch_fail")
           /\ ~HasCall(resp', "publish_ok") /\ ~HasCall(resp', "publish_fail")
           /\ ~HasCall(resp', "publish_raise")]_vars

\* The URLs for which save_downloaded_link completed during request r.
SavedIn(r) ==
    IF RelaySucceeded(r) THEN { r.url }
    ELSE { r.items[i].url : i \in { j \in 1..Len(r.items) :
                                        r.items[j].list = "downloaded" } }

\* The URLs of the entries of every persisted ledger document.
StoredUrls ==
    { LocalLedger.links[i].url : i \in 1..Len(LocalLedger.links) }
        \cup UNION { { drive_docs[d].links[i].url
                       : i \in 1..Len(drive_docs[d].links) }
                     : d \in 1..Len(drive_docs) }

\* C2: the duplicate check of a URL answers true when a save of that URL
\* completed (here: in the request just before) and answers true only for
\* a URL some save has stored, whatever the Primary Remote Store does.
C2_DuplicateDetection ==
    [][(Served /\ resp'.op = "check" /\ resp'.step = "checked")
        => /\ resp'.url \in SavedIn(resp) => resp'.duplicate
           /\ resp'.duplicate => resp'.url \in StoredUrls]_vars

IsPrefix(s, t) ==
    Len(s) <= Len(t) /\ \A i \in 1..Len(s) : s[i] = t[i]

\* C3: no request removes or alters an entry of a persisted ledger: every
\* ledger document after the step is the document before it followed by
\* the entries the step appended.
C3_AppendOnly ==
    [][/\ Len(drive_docs) <= Len(drive_docs')
       /\ \A d \in 1..Len(drive_docs) :
            IsPrefix(drive_docs[d].links, drive_docs'[d].links)
       /\ IsPrefix(LocalLedger.links, LocalLedger'.links)]_vars

\* C4: when the Primary Remote Store's load fails, raising or failing
\* closed, load_downloaded_links returns the Local File Store's content.
C4_LoadFallsBack ==
    (resp.op = "index" /\ resp.via \in {"closed", "raised"})
        => resp.data = LocalLedger

\* C5: every persisted ledger document, on Drive and in the local file, has
\* count equal to the number of its entries.
C5_CountIsLength ==
    /\ LocalLedger.count = Len(LocalLedger.links)
    /\ \A d \in 1..Len(drive_docs) :
            drive_docs[d].count = Len(drive_docs[d].links)

\* C5's case: saves went down both paths, and one appended to a ledger that
\* already had an entry.
C5_Witness ==
    /\ links_file.exists
    /\ Len(links_file.data.links) >= 1
    /\ \E d \in 1..Len(drive_docs) : Len(drive_docs[d].links) >= 2

\* The persisted ledger documents.
LedgerStores ==
    <<links_file, drive_docs>>

CountCalls(r, c) ==
    Cardinality({ i \in 1..Len(r.calls) : r.calls[i] = c })

\* The position of call c in r's calls, 0 when it was not made.
CallAt(r, c) ==
    IF HasCall(r, c) THEN CHOOSE i \in 1..Len(r.calls) : r.calls[i] = c ELSE 0

\* C6: a ledger document changes only in a request that called
\* save_downloaded_link; the relay flow calls it only after a successful
\* fetch and then a successful publish, the batch flow only right after a
\* successful fetch of that URL, once per downloaded URL; a request that
\* ends as duplicate, download, gdrive_download, upload or error, and a
\* skipped or failed URL of a batch, save nothing.
C6_EntryOnlyAfterSuccess ==
    [][Served =>
        LET r == resp'
        IN  /\ LedgerStores' # LedgerStores => HasCall(r, "save")
            /\ r.op \in {"check", "index", "restart"} => ~HasCall(r, "save")
            /\ r.op = "relay" =>
                /\ HasCall(r, "save") <=> r.step = "complete"
                /\ HasCall(r, "save") =>
                    /\ CountCalls(r, "save") = 1
                    /\ 0 < CallAt(r, "fetch_ok")
                    /\ CallAt(r, "fetch_ok") < CallAt(r, "publish_ok")
                    /\ CallAt(r, "publish_ok") < CallAt(r, "save")
            /\ r.op = "manual" =>
                /\ \A i \in 1..Len(r.calls) :
                    r.calls[i] = "save" => i > 1 /\ r.calls[i - 1] = "fetch_ok"
                /\ CountCalls(r, "save") =
                    Cardinality({ i \in 1..Len(r.items) :
                                      r.items[i].list = "downloaded" })
                /\ CountCalls(r, "save") + CountCalls(r, "save_raise")
                        = CountCalls(r, "fetch_ok")]_vars

\* C6's case: a relay request that published and saved its entry.
C6_Witness ==
    /\ RelaySucceeded(resp)
    /\ HasCall(resp, "pull_ok")
    /\ \E d \in 1..Len(drive_docs) : UrlIn(drive_docs[d], resp.url)

\* The URL has an entry with a non-empty relay URL in the ledger on the
\* Primary Remote Store (in every document of the ledger's name).
RelayUrlStored(url) ==
    /\ USE_GDRIVE
    /\ drive_docs # <<>>
    /\ \A d \in 1..Len(drive_docs) :
            \E i \in 1..Len(drive_docs[d].links) :
                /\ drive_docs[d].links[i].url = url
                /\ drive_docs[d].links[i].youtube_url # NoString

\* C7: when the ledger holds an entry for the submitted URL with a
\* non-empty relay URL, the relay flow answers duplicate=true with a relay
\* URL stored for that URL, calls nothing but the ledger lookup, and leaves
\* the ledger and all artifacts as they were.
C7_DuplicateShortCircuit ==
    [][(Served /\ resp'.op = "relay" /\ RelayUrlStored(resp'.url))
        => /\ resp'.step = "duplicate" /\ resp'.duplicate
           /\ \E d \in 1..Len(drive_docs) :
                \E i \in 1..Len(drive_docs[d].links) :
                    /\ drive_docs[d].links[i].url = resp'.url
                    /\ drive_docs[d].links[i].youtube_url = resp'.youtube_url
           /\ resp'.calls = <<"lookup">>
           /\ UNCHANGED <<links_file, drive_docs, drive_videos, downloads,
                          youtube_videos>>]_vars

PublishFailed(r) ==
    HasCall(r, "publish_fail") \/ HasCall(r, "publish_raise")

\* C8: when the relay flow's fetch succeeded and its publish failed, no
\* ledger entry is created, the local artifact and the remote copy (if any)
\* are still there, and the response is a failure tagged 'upload'.
C8_PublishFailure ==
    [][(Served /\ resp'.op = "relay" /\ HasCall(resp', "fetch_ok")
            /\ PublishFailed(resp'))
        => /\ LedgerStores' = LedgerStores
           /\ InDir(downloads', resp'.filename)
           /\ resp'.gdrive_file_id # None
                => drive_videos'[resp'.gdrive_file_id].alive
           /\ ~resp'.success
           /\ resp'.step = "upload"]_vars

\* C9: when the relay flow's publish succeeded, the local artifact is no
\* longer in the download directory and the remote copy, if one was made,
\* is deleted.
C9_CleanupOnSuccess ==
    (resp.op = "relay" /\ HasCall(resp, "publish_ok"))
        => /\ ~InDir(downloads, resp.filename)
           /\ resp.gdrive_file_id # None
                => ~drive_videos[resp.gdrive_file_id].alive

\* C10: a request for a URL that is not a valid Instagram post or reel URL
\* makes no ledger lookup and no external call, in every flow.
C10_ValidationFirst ==
    /\ (resp.op \in {"relay", "check", "manual"} /\ ~ValidInstagramUrl(resp.url))
            => resp.calls = <<>>
    /\ \A i \in 1..Len(resp.items) : ValidInstagramUrl(resp.items[i].url)

\* The items of a batch request whose fetch succeeded, in order.
Downloaded(r) ==
    SelectSeq(r.items, LAMBDA it : it.list = "downloaded")

\* C11: with no Remote Store configured, a batch request appends to the
\* ledger one entry per successful fetch, in order, each with the fetched
\* URL, the fetched file's name, relay URL None and remote-storage id
\* None; a URL it fetched was not in the ledger; the earlier entries are
\* unchanged.
C11_ScenarioA ==
    [][(Served /\ ~USE_GDRIVE /\ resp'.op = "manual")
        => LET got == Downloaded(resp')
               old == LocalLedger.links
               new == LocalLedger'.links
           IN  /\ Len(new) = Len(old) + CountCalls(resp', "fetch_ok")
               /\ Len(got) = CountCalls(resp', "fetch_ok")
               /\ IsPrefix(old, new)
               /\ \A i \in 1..Len(got) :
                    /\ new[Len(old) + i] =
                            Entry(got[i].url, got[i].filename, NoString, None)
                    /\ got[i].filename # NoString
                    /\ ~UrlIn(LocalLedger, got[i].url)]_vars

\* C12: no request flow ends by raising: a request in which an inner
\* step raised ends with a failure response built by the flow.
C12_ErrorsCaught ==
    /\ resp.step # "exception"
    /\ (HasCall(resp, "save_raise") \/ HasCall(resp, "publish_raise"))
            => resp.step = "error" /\ ~resp.success /\ resp.status = 500

\* C13: upload_to_youtube never raises, and it returns a video id only
\* when the upload completed: the video is then on YouTube under the file
\* it was given.
C13_PublisherNeverRaises ==
    /\ ~HasCall(resp, "publish_raise")
    /\ HasCall(resp, "publish_ok") =>
            /\ youtube_videos # <<>>
            /\ youtube_videos[Len(youtube_videos)] = resp.filename

\* C14: with a Remote Store configured, a successful fetch returns the
\* file's name and either the id of the copy it just uploaded, the local
\* file being deleted, or no id, the local file being kept and nothing
\* uploaded.  (Batch requests with one successful fetch: the state after
\* the request is the state the fetch left, the ledger aside.)
C14_FetcherHandOff ==
    [][(Served /\ USE_GDRIVE /\ resp'.op = "manual"
            /\ CountCalls(resp', "fetch_ok") = 1)
        => LET got == Downloaded(resp')
           IN  /\ Len(got) = 1
               /\ got[1].filename # NoString
               /\ IF got[1].gdrive_file_id # None
                  THEN /\ got[1].gdrive_file_id = Len(drive_videos) + 1
                       /\ drive_videos' = Append(drive_videos,
                              [name |-> got[1].filename, alive |-> TRUE])
                       /\ ~InDir(downloads', got[1].filename)
                  ELSE /\ drive_videos' = drive_videos
                       /\ InDir(downloads', got[1].filename)]_vars

\* C14's case: a batch request fetched a file and handed it to Drive.
C14_Witness ==
    /\ USE_GDRIVE
    /\ resp.op = "manual"
    /\ CountCalls(resp, "fetch_ok") = 1
    /\ Len(Downloaded(resp)) = 1
    /\ Downloaded(resp)[1].gdrive_file_id # None
    /\ drive_videos[Downloaded(resp)[1].gdrive_file_id].alive
    /\ ~InDir(downloads, Downloaded(resp)[1].filename)

\* The items of a batch request whose fetch failed, in order.
Failed(r) ==
    SelectSeq(r.items, LAMBDA it : it.list = "failed")

\* C15: a failed fetch returns (None, False, message, None), is made once
\* (the relay flow stops at step 'download' right after it, the batch flow
\* lists the URL as failed once per fetch), uploads nothing to the Remote
\* Store, leaves the download directory, the Remote Store and the ledger
\* as they were, and does not raise.
C15_FetcherFailure ==
    [][Served =>
        LET r == resp'
        IN  /\ (r.op = "relay" /\ HasCall(r, "fetch_fail")) =>
                /\ r.calls = <<"lookup", "extract", "fetch_fail">>
                /\ r.step = "download" /\ ~r.success /\ r.status = 500
                /\ r.filename = NoString /\ r.gdrive_file_id = None
                /\ UNCHANGED <<drive_videos, downloads, youtube_videos,
                               links_file, drive_docs>>
                /\ ~USE_GDRIVE => UNCHANGED <<service, file_id>>
            /\ r.op = "manual" =>
                /\ Len(Failed(r)) = CountCalls(r, "fetch_fail")
                /\ \A i \in 1..Len(Failed(r)) :
                        /\ Failed(r)[i].filename = NoString
                        /\ Failed(r)[i].gdrive_file_id = None
                /\ (HasCall(r, "fetch_fail") /\ ~HasCall(r, "fetch_ok")) =>
                        /\ r.step = "results"
                        /\ UNCHANGED <<drive_videos, downloads, youtube_videos,
                                       links_file, drive_docs>>]_vars

\* C15's case: a relay request whose fetch failed, with files of earlier
\* fetches in the download directory.
C15_Witness ==
    /\ resp.op = "relay"
    /\ resp.step = "download"
    /\ HasCall(resp, "fetch_fail")
    /\ downloads # <<>>

\* C19: when the relay flow has appended its ledger entry (step
\* 'complete'), the copy of the artifact its fetch put on the Remote Store
\* is deleted.
C19_EntryImpliesRemoteGone ==
    (RelaySucceeded(resp) /\ resp.gdrive_file_id # None)
        => ~drive_videos[resp.gdrive_file_id].alive

\* The Extractor has returned.
Extracted ==
    meta.phase \in {"extracted", "titled"}

\* C16: get_instagram_metadata does not raise, whatever yt-dlp and the
\* page answer; it calls the scrape exactly when the yt-dlp path returned
\* no result; it returns (None, None) when both paths fail, the yt-dlp
\* result when there is one, and the scrape's result otherwise.
C16_ExtractorNeverRaises ==
    Extracted =>
        /\ ~meta.out.raised
        /\ meta.out.scraped <=> meta.tool.kind \in ToolFailures
        /\ (meta.tool.kind \in ToolFailures /\ meta.page.kind \in PageFailures)
                => meta.out.username = NoString /\ meta.out.description = NoString
        /\ (meta.tool.kind \in ToolFailures /\ meta.page.kind = "og")
                => /\ meta.out.username = meta.page.username
                   /\ meta.out.description = meta.page.description
        /\ meta.tool.kind = "json" => meta.out.username = meta.tool.uploader

\* C16's case: yt-dlp timed out and the page request raised.
C16_Witness ==
    /\ Extracted
    /\ meta.tool.kind = "timeout"
    /\ meta.page.kind = "error"
    /\ meta.out.scraped
    /\ meta.out.username = NoString /\ meta.out.description = NoString

\* The caption the yt-dlp path reads: description, or title without one.
SourceCaption ==
    IF meta.tool.description # NoString THEN meta.tool.description
    ELSE meta.tool.title

\* C17: the yt-dlp path returns a caption of more than 500 characters as
\* its first 500 characters followed by '...', 503 characters, and a
\* caption of at most 500 characters unchanged.
C17_CaptionTruncation ==
    (Extracted /\ meta.tool.kind = "json") =>
        IF Len(SourceCaption) > 500
        THEN /\ Len(meta.out.description) = 503
             /\ \A i \in 1..500 : meta.out.description[i] = SourceCaption[i]
             /\ \A i \in 501..503 : meta.out.description[i] = 0
        ELSE meta.out.description = SourceCaption

\* C17's case: a caption of 501 characters was extracted.
C17_Witness ==
    /\ Extracted
    /\ meta.tool.kind = "json"
    /\ Len(meta.tool.description) = 501
    /\ Len(meta.out.description) = 503

\* C18: the title the relay flow passes to upload_to_youtube has at most
\* 100 characters, and for a caption of more than 100 characters it is the
\* caption's first 100 characters (the caption as extracted, and as
\* yt-dlp gave it).
C18_TitleTruncation ==
    meta.phase = "titled" =>
        /\ Len(meta.title) <= 100
        /\ Len(meta.out.description) > 100 =>
                /\ Len(meta.title) = 100
                /\ \A i \in 1..100 : meta.title[i] = meta.out.description[i]
        /\ (meta.tool.kind = "json" /\ Len(SourceCaption) > 100) =>
                \A i \in 1..100 : meta.title[i] = SourceCaption[i]

\* C18's case: the title of a caption of 101 characters.
C18_Witness ==
    /\ meta.phase = "titled"
    /\ meta.tool.kind = "json"
    /\ Len(meta.out.description) = 101
    /\ Len(meta.title) = 100

C21_SingletonDocument ==
    Len(drive_docs) <= 1

\* The positions of the calls of r that are one of cs.
CallsAt(r, cs) ==
    { i \in 1..Len(r.calls) : r.calls[i] \in cs }

Before(r, cs, ds) ==
    \A j \in CallsAt(r, ds) : \E i \in CallsAt(r, cs) : i < j

PublishCalls ==
    {"publish_ok", "publish_fail", "publish_raise"}

\* C22: in the relay flow the Publisher is called only after the ledger
\* lookup found no relay URL, after a successful fetch and, when the fetch
\* returned a remote id, after a successful pull-back; the remote copy is
\* deleted only after a successful publish; the ledger save comes after
\* the publish and after the deletion.
C22_RelayStepOrder ==
    resp.op = "relay" =>
        /\ CallsAt(resp, PublishCalls) # {} =>
                /\ resp.calls[1] = "lookup" /\ ~resp.duplicate
                /\ ~HasCall(resp, "fetch_fail") /\ ~HasCall(resp, "pull_fail")
                /\ Cardinality(CallsAt(resp, PublishCalls)) = 1
        /\ Before(resp, {"fetch_ok"}, PublishCalls)
        /\ resp.gdrive_file_id # None => Before(resp, {"pull_ok"}, PublishCalls)
        /\ Before(resp, {"fetch_ok"}, {"pull_ok", "pull_fail"})
        /\ Before(resp, {"publish_ok"}, {"delete_ok", "delete_fail"})
        /\ Before(resp, {"publish_ok"}, {"save", "save_raise"})
        /\ resp.gdrive_file_id # None =>
                Before(resp, {"delete_ok", "delete_fail"}, {"save", "save_raise"})
        /\ resp.duplicate => resp.calls = <<"lookup">>

\* C22's case: a relay request that went through every step.
C22_Witness ==
    /\ resp.op = "relay"
    /\ resp.calls = <<"lookup", "extract", "fetch_ok", "pull_ok", "publish_ok",
                      "delete_ok", "remove_local", "save">>

\* The last call of r is c.
LastCall(r, c) ==
    r.calls # <<>> /\ r.calls[Len(r.calls)] = c

\* C23: a relay request in which a step failed answers success=false with
\* the tag of that step, 'download' for the fetch, 'gdrive_download' for
\* the pull-back, 'upload' for the publish, and the failed step is the
\* last call it made.
C23_RelayFailureTags ==
    resp.op = "relay" =>
        /\ HasCall(resp, "fetch_fail") =>
                resp.step = "download" /\ ~resp.success /\ LastCall(resp, "fetch_fail")
        /\ HasCall(resp, "pull_fail") =>
                resp.step = "gdrive_download" /\ ~resp.success
                    /\ LastCall(resp, "pull_fail")
        /\ HasCall(resp, "publish_fail") =>
                resp.step = "upload" /\ ~resp.success /\ LastCall(resp, "publish_fail")
        /\ HasCall(resp, "publish_raise") =>
                resp.step = "upload" /\ ~resp.success /\ LastCall(resp, "publish_raise")

\* The Primary Remote Store was asked in the call that gave result l.
AsksPrimary(l) ==
    l.via \in {"ok", "closed", "raised"}

\* The Primary Remote Store answered the call that gave result l.
PrimaryAnswers(l) ==
    l.via = "ok" /\ (drive_docs # <<>> => \E d \in 1..Len(drive_docs) : l.r = drive_docs[d])

\* C24: with a Remote Store configured, in every reachable state, also
\* after earlier calls fell back to the Local File Store, every call of
\* load_downloaded_links, is_already_downloaded and save_downloaded_link
\* asks the Primary Remote Store, and the Primary can still answer a load.
C24_NoStickyDisablement ==
    USE_GDRIVE =>
        /\ \A l \in load_downloaded_links(World) : AsksPrimary(l)
        /\ \E l \in load_downloaded_links(World) : PrimaryAnswers(l)
        /\ \A u \in ValidUrls : \A c \in is_already_downloaded(World, u) : AsksPrimary(c)
        /\ \A u \in ValidUrls :
                \A v \in save_downloaded_link(World, Entry(u, MediaFile(u), NoString, None)) :
                    AsksPrimary(v)
        /\ resp.op = "index" => AsksPrimary(resp)

\* C24: an earlier save fell back to the local file, and the ledger this
\* index request shows is the Primary's, not the local file's.
C24_Witness ==
    /\ USE_GDRIVE /\ links_file.exists
    /\ resp.op = "index" /\ resp.via = "ok"
    /\ resp.data # links_file.data

\* C25: once authenticate_youtube has succeeded, every later call in the
\* process returns the cached client and does nothing else, so no later
\* publish fails by an authentication exception and the client stays
\* cached until the process ends; a call that fails leaves the cache empty
\* and the world as it was, and while the cache is empty a call
\* authenticates anew.
C25_PublisherSessionCached ==
    [][/\ youtube_service => authenticate_youtube(World) = { Ret(World, TRUE) }
       /\ youtube_service /\ resp'.op # "restart" =>
                youtube_service' /\ ~HasCall(resp', "publish_raise")
       /\ ~youtube_service =>
                /\ \A a \in authenticate_youtube(World) : a.x \/ ~a.r => a.w = World
                /\ \E a \in authenticate_youtube(World) :
                        ~a.x /\ a.r /\ a.w.youtube_service
       /\ HasCall(resp', "publish_raise") => ~youtube_service']_vars

\* C25: the second of two relay requests of one process published with
\* the client the first one cached.
C25_Witness ==
    /\ resp.op = "relay" /\ resp.n = 2
    /\ HasCall(resp, "publish_ok")
    /\ youtube_service /\ Len(youtube_videos) = 2

\* C26: the file a successful fetch of a relay request returns is the
\* media file of the request's own URL, and the video a relay request
\* publishes is that file.
C26_FetcherReturnsOwnArtifact ==
    resp.op = "relay" /\ HasCall(resp, "fetch_ok") =>
        /\ resp.filename = MediaFile(resp.url)
        /\ HasCall(resp, "publish_ok") =>
                youtube_videos[Len(youtube_videos)] = MediaFile(resp.url)

\* No URL has two entries in ledger data.
OneEntryPerUrl(data) ==
    \A i, j \in 1..Len(data.links) :
        data.links[i].url = data.links[j].url => i = j

\* The batch request of response r ran its loop.
Looped(r) ==
    r.op = "manual" /\ r.step \in {"results", "exception"}

\* The batch request of response r fetched its first URL, with success.
FirstFetched(r) ==
    Looped(r) /\ Len(r.calls) >= 3 /\ r.calls[3] = "fetch_ok"

\* The batch request of response r skipped its first URL: after the
\* lookup it called no Fetcher for it.
FirstSkipped(r) ==
    /\ Looped(r) /\ Len(r.calls) >= 2
    /\ Len(r.calls) >= 3 => r.calls[3] = "extract"
    /\ r.items # <<>> /\ r.items[1].list = "skipped"

AllEntries ==
    { LocalLedger.links[i] : i \in 1..Len(LocalLedger.links) }
        \cup UNION { { drive_docs[d].links[i] : i \in 1..Len(drive_docs[d].links) }
                     : d \in 1..Len(drive_docs) }

\* C28: no ledger entry has both a relay URL and a remote-storage id; the
\* entries a batch request adds have no relay URL, and the entries a relay
\* request adds have the relay URL of its response, which is not empty,
\* the URL of the request and no remote-storage id.
C28_RelayUrlOrRemoteId ==
    [][/\ \A e \in AllEntries' : e.youtube_url = NoString \/ e.gdrive_file_id = None
       /\ Served /\ resp'.op = "manual" =>
                \A e \in AllEntries' \ AllEntries : e.youtube_url = NoString
       /\ Served /\ resp'.op = "relay" =>
                \A e \in AllEntries' \ AllEntries :
                    /\ e.youtube_url # NoString /\ e.youtube_url = resp'.youtube_url
                    /\ e.url = resp'.url
                    /\ e.gdrive_file_id = None
       /\ Served /\ resp'.op \notin {"manual", "relay"} => AllEntries' \subseteq AllEntries]_vars

\* C28: a ledger holds an entry of the batch flow with a remote-storage id
\* and an entry of the relay flow whose fetch had returned a remote id.
C28_Witness ==
    /\ \E e \in AllEntries : e.gdrive_file_id # None /\ e.youtube_url = NoString
    /\ \E e \in AllEntries : e.youtube_url # NoString /\ e.gdrive_file_id = None
    /\ resp.op = "relay" /\ resp.step = "complete" /\ resp.gdrive_file_id # None

\* C29: a check_url request changes no ledger document, local or remote,
\* no file of the download directory, no video on Drive and nothing on
\* YouTube, and calls neither the Fetcher nor the Publisher: beside the
\* validation of its input it makes one ledger lookup and one metadata
\* extraction.
C29_CheckUrlReadOnly ==
    [][(Served /\ resp'.op = "check") =>
            /\ UNCHANGED <<drive_docs, links_file, downloads, drive_videos,
                           youtube_videos, youtube_service>>
            /\ resp'.calls = IF resp'.url = EmptyUrl THEN <<>>
                             ELSE <<"lookup", "extract">>
            /\ resp'.filename = NoString /\ resp'.gdrive_file_id = None
            /\ resp'.youtube_url = NoString]_vars

\* C29: a check_url request found its URL in a ledger that has entries
\* while the download directory holds a file.
C29_Witness ==
    /\ resp.op = "check" /\ resp.step = "checked" /\ resp.duplicate
    /\ AllEntries # {} /\ downloads # <<>>

=============================================================================
